---- MODULE Spec2Model ----
(***************************************************************************)
(* AgriBot-Retrofit: the coverage-path generator                           *)
(* (mocks/waypoint_converter_mock.py), the mission generator               *)
(* (mocks/mission_generator_mock.py) and the telemetry simulator           *)
(* (src/simulator.py), as state machines.                                  *)
(*                                                                         *)
(* Numbers.  The code computes in floating point; the model keeps every    *)
(* quantity as an integer count of a unit small enough that the code's     *)
(* constants are whole numbers of it:                                      *)
(*   latitude/longitude of the path generator : 1/222000 degree, so that   *)
(*       swath_width_m / 111000 degrees is 2 * swath_width_m units and     *)
(*       half of it is swath_width_m units;                                *)
(*   tank_level, battery, fuel                : 1/6000 percent, so that    *)
(*       0.01 %/min is 1 unit per second (60 units per minute);            *)
(*   dt of _update_resources                  : seconds (1/60 minute).     *)
(* Rounding error of the floating-point operations is not modelled.        *)
(***************************************************************************)
EXTENDS Integers, Sequences, FiniteSets, TLC

VARIABLES
    \* ---- WaypointConverter.polygon_to_boustrophedon -------------------
    polygon_coords,   \* the argument: a sequence of <<lon, lat>>
    swath_width_m,    \* self.swath_width_m
    cpc,              \* position in the call: "call", "sweep", "done", "raised"
                      \* ("idle" between the calls generate_mission makes)
    error,            \* the exception that ended the call, or "none"
    min_lon, max_lon, min_lat, max_lat,
    swath_deg_lat,
    current_lat,
    line_direction,   \* the local variable direction
    line_num,
    waypoints,
    \* ---- TelemetrySimulator -------------------------------------------
    operation,
    tank_level, battery, fuel,
    last_dt,          \* the dt of the latest _update_resources call (seconds)
    calls,            \* number of _update_resources calls made so far
    lat, lon, heading, direction, rows_completed,
    start_lat,        \* the start_lat the simulator was constructed with
    start_lon,        \* the start_lon the simulator was constructed with
    turns_in_row,     \* how many of the latest _update_position calls, counted
                      \* back from the last one, each turned the vehicle around
    tick_dt,          \* the dt a caller of the update methods ticks with
    moves,            \* number of _update_position calls made from outside run
    \* ---- TelemetrySimulator.run ---------------------------------------
    rpc,              \* position in run: "idle", "loop", "generate", "publish",
                      \* "count", "position", "resources", "sleep", "summary",
                      \* "done", "raised"
    run_error,        \* the exception that ended run, or "none"
    duration_sec, interval_sec,
    message,          \* the record composed in the current tick
    message_count, success_count,
    publishers,       \* MultiPublisher.publishers: a sequence of publisher kinds
    results,          \* the list results of MultiPublisher.publish, as it is built
    published,        \* number of records handed to every publisher so far
    pos_ticks,        \* number of _update_position calls made by run
    res_ticks,        \* number of _update_resources calls made by run
    interrupted,      \* KeyboardInterrupt was raised inside the try block
    \* ---- MissionGenerator.generate_mission ----------------------------
    zones,            \* the polygons of the prescription's zones, in order
    mpc,              \* position in generate_mission: "start", "zone",
                      \* "converting", "returned", "raised"
    zone_index,       \* the zone the for loop is at (from 1)
    zone_missions,
    mission_error     \* the exception that ended generate_mission, or "none"

convVars == <<polygon_coords, swath_width_m, cpc, error, min_lon, max_lon,
              min_lat, max_lat, swath_deg_lat, current_lat, line_direction,
              line_num, waypoints>>

resVars == <<tank_level, battery, fuel, last_dt, calls>>

posVars == <<lat, lon, heading, direction, rows_completed, start_lat,
             start_lon, turns_in_row>>

callVars == <<tick_dt, moves>>

runArgs == <<duration_sec, interval_sec, publishers>>

runCounts == <<message_count, success_count, published, pos_ticks, res_ticks>>

runVars == <<rpc, run_error, runArgs, message, results, runCounts, interrupted>>

simVars == <<operation, resVars, posVars, callVars, runVars>>

misVars == <<zones, mpc, zone_index, zone_missions, mission_error>>

vars == <<convVars, simVars, misVars>>

-----------------------------------------------------------------------------
(* Bounds of the model *)

MaxVertices == 3
MaxLon == 1
LatStride == 2
MaxLatIdx == 2
MaxSwath == 2
MaxRunaway == 3
MaxCalls == 4
MaxTicks == 5
MaxMoves == 10
MaxPublishers == 2
MaxZones == 3

-----------------------------------------------------------------------------
(* Helpers *)

Max(a, b) == IF a >= b THEN a ELSE b

Abs(a) == IF a >= 0 THEN a ELSE 0 - a

SeqsUpTo(S, n) == UNION {[1..k -> S] : k \in 0..n}

\* min() and max() of a non-empty list
MinOf(s) == CHOOSE x \in {s[i] : i \in DOMAIN s} : \A j \in DOMAIN s : x <= s[j]

MaxOf(s) == CHOOSE x \in {s[i] : i \in DOMAIN s} : \A j \in DOMAIN s : x >= s[j]

\* lons = [coord[0] for coord in polygon_coords]
LonsOf(p) == [i \in DOMAIN p |-> p[i][1]]

\* lats = [coord[1] for coord in polygon_coords]
LatsOf(p) == [i \in DOMAIN p |-> p[i][2]]

-----------------------------------------------------------------------------
(* WaypointConverter *)

\* 'velocity_m_s': 1.5, in tenths of m/s
WorkVelocity == 15

\* (mutant) the width taken as half-metres
SwathDegLatUnscaled(w) == w

\* swath_deg_lat = self.swath_width_m / 111000, in units of 1/222000 degree
SwathDegLat(w) == 2 * w

\* swath_deg_lat / 2
HalfSwath(step) == step \div 2

\* current_lat = min_lat + swath_deg_lat / 2
FirstLat(lo, step) == lo + HalfSwath(step)

\* (mutant) the loop also runs at max_lat itself
SweepCondInclusive(cur, hi) == cur <= hi

\* while current_lat < max_lat
SweepCond(cur, hi) == cur < hi

\* start_lon, end_lon of a line swept in direction d
StartLon(d, lo, hi) == IF d = 1 THEN lo ELSE hi

EndLon(d, lo, hi) == IF d = 1 THEN hi ELSE lo

\* (mutant) the line number is advanced between the two appends
LineWaypointsLateNumber(cur, d, n, lo, hi) ==
    << [lat |-> cur, lon |-> StartLon(d, lo, hi), velocity_m_s |-> WorkVelocity,
        action |-> "start_line", line_number |-> n],
       [lat |-> cur, lon |-> EndLon(d, lo, hi), velocity_m_s |-> WorkVelocity,
        action |-> "end_line", line_number |-> n + 1] >>

\* the two waypoints.append(...) of one pass of the loop
LineWaypoints(cur, d, n, lo, hi) ==
    << [lat |-> cur, lon |-> StartLon(d, lo, hi), velocity_m_s |-> WorkVelocity,
        action |-> "start_line", line_number |-> n],
       [lat |-> cur, lon |-> EndLon(d, lo, hi), velocity_m_s |-> WorkVelocity,
        action |-> "end_line", line_number |-> n] >>

\* current_lat += swath_deg_lat
NextLat(cur, step) == cur + step

\* (mutant) the direction is never reversed
NextDirectionKept(d) == d

\* direction *= -1
NextDirection(d) == d * (-1)

\* line_num += 1
NextLineNum(n) == n + 1

\* The polygons and swath widths the converter is called with.
Lons == {0, MaxLon}

Lats == {LatStride * k : k \in 0..MaxLatIdx}

Polygons == SeqsUpTo(Lons \X Lats, MaxVertices)

Swaths == {-1, 0} \cup 1..MaxSwath

\* The square (0,0),(0,0.001),(0.001,0.001),(0.001,0) with swath width 11100 m.
SmallSquare == << <<0, 0>>, <<0, 222>>, <<222, 222>>, <<222, 0>> >>

WideSwath == 111 * 100

\* A square spanning 0.01 degree of latitude, with swath width 5 m.
LongField == << <<0, 0>>, <<0, 2220>>, <<2220, 2220>>, <<2220, 0>> >>

NarrowSwath == 2 + 3

Scenarios == { <<SmallSquare, WideSwath>>, <<LongField, NarrowSwath>> }

\* The state before the call: the arguments are given, the locals are not set.
ConvStart ==
    /\ cpc = "call"
    /\ error = "none"
    /\ min_lon = 0 /\ max_lon = 0 /\ min_lat = 0 /\ max_lat = 0
    /\ swath_deg_lat = 0
    /\ current_lat = 0
    /\ line_direction = 1
    /\ line_num = 0
    /\ waypoints = << >>

ConvInit ==
    /\ \/ polygon_coords \in Polygons /\ swath_width_m \in Swaths
       \/ \E sc \in Scenarios : polygon_coords = sc[1] /\ swath_width_m = sc[2]
    /\ ConvStart

\* A converter built with the default swath width (line 16) and never called.
ConvIdle ==
    /\ polygon_coords = << >>
    /\ swath_width_m = NarrowSwath
    /\ ConvStart

\* Lines 34-49: the bounding box and the loop's initial values.  min() of an
\* empty list raises ValueError.
ComputeBounds ==
    /\ cpc = "call"
    /\ IF polygon_coords = << >>
       THEN /\ cpc' = "raised"
            /\ error' = "ValueError"
            /\ UNCHANGED <<min_lon, max_lon, min_lat, max_lat, swath_deg_lat,
                           current_lat, line_direction, line_num, waypoints>>
       ELSE /\ min_lon' = MinOf(LonsOf(polygon_coords))
            /\ max_lon' = MaxOf(LonsOf(polygon_coords))
            /\ min_lat' = MinOf(LatsOf(polygon_coords))
            /\ max_lat' = MaxOf(LatsOf(polygon_coords))
            /\ swath_deg_lat' = SwathDegLat(swath_width_m)
            /\ current_lat' = FirstLat(min_lat', swath_deg_lat')
            /\ line_direction' = 1
            /\ line_num' = 0
            /\ waypoints' = << >>
            /\ cpc' = "sweep"
            /\ error' = "none"
    /\ UNCHANGED <<polygon_coords, swath_width_m>>
    /\ UNCHANGED <<simVars, misVars>>

\* Lines 51-77: one pass of the while loop.  With a step that is not positive
\* the loop never ends; the model follows it for MaxRunaway lines.
SweepLine ==
    /\ cpc = "sweep"
    /\ SweepCond(current_lat, max_lat)
    /\ swath_deg_lat > 0 \/ line_num < MaxRunaway
    /\ waypoints' = waypoints \o
           LineWaypoints(current_lat, line_direction, line_num, min_lon, max_lon)
    /\ current_lat' = NextLat(current_lat, swath_deg_lat)
    /\ line_direction' = NextDirection(line_direction)
    /\ line_num' = NextLineNum(line_num)
    /\ UNCHANGED <<polygon_coords, swath_width_m, cpc, error, min_lon, max_lon,
                   min_lat, max_lat, swath_deg_lat>>
    /\ UNCHANGED <<simVars, misVars>>

\* Lines 51 and 79: the loop condition fails and the list is returned.
ReturnWaypoints ==
    /\ cpc = "sweep"
    /\ ~SweepCond(current_lat, max_lat)
    /\ cpc' = "done"
    /\ UNCHANGED <<polygon_coords, swath_width_m, error, min_lon, max_lon,
                   min_lat, max_lat, swath_deg_lat, current_lat, line_direction,
                   line_num, waypoints>>
    /\ UNCHANGED <<simVars, misVars>>

ConvNext == ComputeBounds \/ SweepLine \/ ReturnWaypoints

-----------------------------------------------------------------------------
(* MissionGenerator.generate_mission *)

\* Zone polygons, as rings of [lon, lat] in units of 1/222000 degree.  With
\* the generator's swath width of 5 m the first line lies 5 units above the
\* lowest latitude and the lines are 10 units apart.
EmptyRing == << >>

\* a triangle 4 units high: no line fits
ThinZone == << <<0, 0>>, <<12, 0>>, <<12, 4>> >>

\* a triangle 12 units high: one line
OneLineZone == << <<0, 0>>, <<12, 0>>, <<12, 12>> >>

\* a triangle 22 units high: two lines
TwoLineZone == << <<0, 0>>, <<12, 0>>, <<12, 22>> >>

ZonePolygons == {EmptyRing, ThinZone, OneLineZone, TwoLineZone}

\* the zone lists of the prescriptions the model loads
ZoneLists == SeqsUpTo(ZonePolygons, MaxZones)

\* The converter of MissionGenerator.__init__, line 22: swath width 5 m, and
\* polygon_to_boustrophedon not in a call.
ConvBuilt ==
    /\ polygon_coords = << >>
    /\ swath_width_m = NarrowSwath
    /\ cpc = "idle"
    /\ error = "none"
    /\ min_lon = 0 /\ max_lon = 0 /\ min_lat = 0 /\ max_lat = 0
    /\ swath_deg_lat = 0
    /\ current_lat = 0
    /\ line_direction = 1
    /\ line_num = 0
    /\ waypoints = << >>

\* lines 36-47: the prescription is loaded and validated (a prescription
\* without zones is invalid: shapefile_importer_mock.py, lines 46-48)
LoadPrescription ==
    /\ mpc = "start"
    /\ IF zones = << >>
       THEN /\ mpc' = "raised"
            /\ mission_error' = "ValueError"
            /\ UNCHANGED zone_index
       ELSE /\ mpc' = "zone"
            /\ zone_index' = 1
            /\ UNCHANGED mission_error
    /\ zone_missions' = << >>
    /\ UNCHANGED zones
    /\ UNCHANGED <<convVars, simVars>>

\* lines 49-53: the next zone's ring is handed to polygon_to_boustrophedon
BeginZone ==
    /\ mpc = "zone"
    /\ zone_index <= Len(zones)
    /\ polygon_coords' = zones[zone_index]
    /\ cpc' = "call"
    /\ mpc' = "converting"
    /\ UNCHANGED <<swath_width_m, error, min_lon, max_lon, min_lat, max_lat,
                   swath_deg_lat, current_lat, line_direction, line_num,
                   waypoints>>
    /\ UNCHANGED <<zones, zone_index, zone_missions, mission_error>>
    /\ UNCHANGED simVars

\* line 53: an exception of polygon_to_boustrophedon is not caught in
\* generate_mission
ConverterRaised ==
    /\ mpc = "converting"
    /\ cpc = "raised"
    /\ mpc' = "raised"
    /\ mission_error' = error
    /\ UNCHANGED <<zones, zone_index, zone_missions>>
    /\ UNCHANGED <<convVars, simVars>>

\* max(wp['line_number'] for wp in waypoints) + 1, line 65, of a non-empty
\* list
NumLines(w) == MaxOf([k \in DOMAIN w |-> w[k].line_number]) + 1

\* lines 54-71: the zone's statistics and its entry in zone_missions.  max()
\* of an empty sequence raises ValueError (line 65).
ZoneStats ==
    /\ mpc = "converting"
    /\ cpc = "done"
    /\ IF waypoints = << >>
       THEN /\ mpc' = "raised"
            /\ mission_error' = "ValueError"
            /\ UNCHANGED <<zone_index, zone_missions>>
       ELSE /\ zone_missions' = Append(zone_missions,
                                       [zone |-> zone_index,
                                        num_waypoints |-> Len(waypoints),
                                        num_lines |-> NumLines(waypoints)])
            /\ zone_index' = zone_index + 1
            /\ mpc' = "zone"
            /\ UNCHANGED mission_error
    /\ cpc' = "idle"
    /\ UNCHANGED zones
    /\ UNCHANGED <<polygon_coords, swath_width_m, error, min_lon, max_lon,
                   min_lat, max_lat, swath_deg_lat, current_lat, line_direction,
                   line_num, waypoints>>
    /\ UNCHANGED simVars

\* lines 78-93: the for loop is over and the mission is returned
ReturnMission ==
    /\ mpc = "zone"
    /\ zone_index > Len(zones)
    /\ mpc' = "returned"
    /\ UNCHANGED <<zones, zone_index, zone_missions, mission_error>>
    /\ UNCHANGED <<convVars, simVars>>

MissionNext ==
    \/ LoadPrescription
    \/ BeginZone
    \/ ComputeBounds
    \/ SweepLine
    \/ ReturnWaypoints
    \/ ConverterRaised
    \/ ZoneStats
    \/ ReturnMission

-----------------------------------------------------------------------------
(* TelemetrySimulator: resources *)

OperationTypes == {"fertilizer_application", "pesticide_application", "seeding",
                   "harvest", "soil_sampling", "idle", "maintenance"}

ApplicationTypes == {"fertilizer_application", "pesticide_application"}

\* 100.0 percent, in units of 1/6000 percent
FullLevel == 100 * 6000

\* 0.05 * dt, 0.01 * dt, 0.02 * dt with dt in minutes, for dt given in seconds
TankRate == 5

BatteryRate == 1

FuelRate == 2

\* (mutant) the tank is drawn on whatever the operation
TankAfterAnyOperation(op, level, dt) == level - TankRate * dt

\* if self.operation in [FERTILIZER_APPLICATION, PESTICIDE_APPLICATION]:
\*     self.tank_level -= 0.05 * dt
TankAfter(op, level, dt) ==
    IF op \in ApplicationTypes THEN level - TankRate * dt ELSE level

\* (mutant) the battery charges
BatteryAfterCharging(level, dt) == level + BatteryRate * dt

\* self.battery -= 0.01 * dt
BatteryAfter(level, dt) == level - BatteryRate * dt

\* self.fuel -= 0.02 * dt
FuelAfter(level, dt) == level - FuelRate * dt

\* (mutant) the level is not clamped
ClampOmitted(level) == level

\* max(0, level)
Clamp(level) == Max(0, level)

\* Latitude and longitude of the simulator are counted in units of
\* 1/9990000 degree: (speed / 3600) / 111 degrees per second at 8 km/h is 200
\* units per second, row_width 0.0001 is 999 units, row_length 0.005 is 49950.
DefaultStartLat == -211022766

DefaultStartLon == -475202322

\* the literal -47.5678 of line 216
RowOriginLon == -475202322

RowWidth == 999

RowLength == 49950

\* speed_deg_per_sec = (self.speed / 3600) / 111, with self.speed = 8.0
SpeedDegPerSec == 200

HeadingEast == 90

HeadingWest == 270

StartLons == {DefaultStartLon, DefaultStartLon + 2 * RowLength}

\* 90 degrees of latitude
LatLimit == 90 * 9990000

\* the start_lat values a simulator is constructed with: the default, and one
\* beyond the north pole, which the constructor accepts
StartLats == {DefaultStartLat, LatLimit + RowWidth}

\* __init__, lines 188-202
SimInit ==
    /\ operation \in OperationTypes
    /\ tank_level = FullLevel
    /\ battery = FullLevel
    /\ fuel = FullLevel
    /\ last_dt = 0
    /\ calls = 0
    /\ start_lat \in StartLats
    /\ lat = start_lat
    /\ start_lon \in StartLons
    /\ lon = start_lon
    /\ heading = HeadingEast
    /\ direction = 1
    /\ rows_completed = 0
    /\ turns_in_row = 0

\* no caller is ticking the update methods by itself
NoCaller ==
    /\ tick_dt = 0
    /\ moves = 0

NoMessage == [status |-> "none", tank_level_pct |-> 0, battery_pct |-> 0,
              fuel_level_pct |-> 0, lat |-> 0, lon |-> 0, heading_deg |-> 0]

\* run has not been called
RunIdle ==
    /\ rpc = "idle"
    /\ run_error = "none"
    /\ duration_sec = 0
    /\ interval_sec = 0
    /\ publishers = << >>
    /\ message = NoMessage
    /\ results = << >>
    /\ message_count = 0
    /\ success_count = 0
    /\ published = 0
    /\ pos_ticks = 0
    /\ res_ticks = 0
    /\ interrupted = FALSE

\* generate_mission has not been called
MissionIdle ==
    /\ zones = << >>
    /\ mpc = "idle"
    /\ zone_index = 0
    /\ zone_missions = << >>
    /\ mission_error = "none"

\* The values of dt (seconds) the model calls _update_resources with:
\* one second, one minute, a negative minute, and spans long enough to empty
\* each resource.
DtChoices == {-60, 0, 1, 60, 60 * 1000, 60 * 5000, 60 * 10000}

\* _update_resources(dt), lines 226-237, on the fields it writes
ResourcesUpdated(dt) ==
    /\ tank_level' = Clamp(TankAfter(operation, tank_level, dt))
    /\ battery' = Clamp(BatteryAfter(battery, dt))
    /\ fuel' = Clamp(FuelAfter(fuel, dt))
    /\ last_dt' = dt

\* a call of _update_resources(dt) from outside run
UpdateResources(dt) ==
    /\ rpc = "idle"
    /\ calls < MaxCalls
    /\ ResourcesUpdated(dt)
    /\ calls' = calls + 1
    /\ UNCHANGED <<operation, posVars, callVars, runVars>>
    /\ UNCHANGED <<convVars, misVars>>

ResNext == \E dt \in DtChoices : UpdateResources(dt)

-----------------------------------------------------------------------------
(* TelemetrySimulator: position *)

\* abs(self.lon - (-47.5678)) > self.row_length
RowEnded(x) == Abs(x - RowOriginLon) > RowLength

\* self.lon += speed_deg_per_sec * dt  or  self.lon -= speed_deg_per_sec * dt
LonAfter(x, d, dt) ==
    IF d = 1 THEN x + SpeedDegPerSec * dt ELSE x - SpeedDegPerSec * dt

\* (mutant) the two headings are exchanged
HeadingOfExchanged(d) == IF d = 1 THEN HeadingWest ELSE HeadingEast

\* self.heading = 90.0 if self.direction == 1 else 270.0
HeadingOf(d) == IF d = 1 THEN HeadingEast ELSE HeadingWest

\* (mutant) the turn leaves the direction as it was
TurnedDirectionKept(d) == d

\* self.direction *= -1
TurnedDirection(d) == d * (-1)

\* _update_position(dt), lines 204-217, with _turn_around, lines 219-224
PositionUpdated(dt) ==
    /\ lon' = LonAfter(lon, direction, dt)
    /\ IF RowEnded(lon')
       THEN /\ direction' = TurnedDirection(direction)
            /\ lat' = lat + RowWidth
            /\ rows_completed' = rows_completed + 1
            /\ heading' = HeadingOf(direction')
            /\ turns_in_row' = turns_in_row + 1
       ELSE /\ UNCHANGED <<direction, lat, rows_completed, heading>>
            /\ turns_in_row' = 0
    /\ UNCHANGED <<start_lat, start_lon>>

\* a call of _update_position(tick_dt) from outside run
UpdatePosition ==
    /\ rpc = "idle"
    /\ moves < MaxMoves
    /\ PositionUpdated(tick_dt)
    /\ moves' = moves + 1
    /\ UNCHANGED <<operation, resVars, tick_dt, runVars>>
    /\ UNCHANGED <<convVars, misVars>>

PosNext == UpdatePosition

-----------------------------------------------------------------------------
(* TelemetrySimulator.run *)

\* the operations the model runs a simulator with: the two that draw on the
\* tank and two of the five that do not
RunOperations == {"fertilizer_application", "pesticide_application", "seeding",
                  "idle"}

\* the values of --duration and --interval the model runs with (seconds)
DurationChoices == {0, 60}

IntervalChoices == {-60, 0, 1, 60, 60 * 500}

\* ConsolePublisher, MQTTPublisher, HTTPPublisher
PublisherKinds == {"console", "mqtt", "http"}

\* the publisher lists a MultiPublisher is built over (a single publisher
\* handed to run is the list of length one)
PublisherLists == SeqsUpTo(PublisherKinds, MaxPublishers)

\* What publish can return.  ConsolePublisher.publish, lines 60-79, returns
\* True.  MQTTPublisher.publish, lines 120-132, returns False when the client
\* is not connected or the result code is not MQTT_ERR_SUCCESS.
\* HTTPPublisher.publish, lines 150-168, returns False on a status other than
\* 200, 201, 202 and on a RequestException (a timeout after 5 s included).
Outcomes(kind) == IF kind = "console" THEN {TRUE} ELSE BOOLEAN

\* DeviceHealth: ge=0, le=100 on the three percentages; GPSPosition: lat in
\* [-90, 90] (telemetry_spec.py)
FieldsValid ==
    /\ tank_level >= 0 /\ tank_level <= FullLevel
    /\ battery >= 0 /\ battery <= FullLevel
    /\ fuel >= 0 /\ fuel <= FullLevel
    /\ lat >= 0 - LatLimit /\ lat <= LatLimit

\* thresholds of lines 277-278, in units of 1/6000 percent
TankWarn == 10 * 6000

BatteryWarn == 15 * 6000

FuelWarn == 10 * 6000

\* (mutant) the thresholds themselves count as low
StatusOfInclusive(t, b, f) ==
    IF t <= TankWarn \/ b <= BatteryWarn \/ f <= FuelWarn
    THEN "warning" ELSE "operational"

\* lines 275-278
StatusOf(t, b, f) ==
    IF t < TankWarn \/ b < BatteryWarn \/ f < FuelWarn
    THEN "warning" ELSE "operational"

\* (mutant) the record is composed from the resources as they will be after
\* the tick's advance
ComposedMessageAhead ==
    [status |-> StatusOf(tank_level, battery, fuel),
     tank_level_pct |-> Clamp(TankAfter(operation, tank_level, interval_sec)),
     battery_pct |-> Clamp(BatteryAfter(battery, interval_sec)),
     fuel_level_pct |-> Clamp(FuelAfter(fuel, interval_sec)),
     lat |-> lat, lon |-> lon, heading_deg |-> heading]

\* the TelemetryMessage of lines 280-292, on the fields the model follows
ComposedMessage ==
    [status |-> StatusOf(tank_level, battery, fuel),
     tank_level_pct |-> tank_level, battery_pct |-> battery,
     fuel_level_pct |-> fuel, lat |-> lat, lon |-> lon,
     heading_deg |-> heading]

\* (mutant) all(results)
AnyAcceptedAll(r) == \A k \in DOMAIN r : r[k]

\* any(results), line 399
AnyAccepted(r) == \E k \in DOMAIN r : r[k]

\* (mutant) the message is not counted
CountedKept(n) == n

\* message_count += 1, line 327
Counted(n) == n + 1

\* run is called: lines 308-317
StartRun(d, i, pubs) ==
    /\ rpc = "idle"
    /\ duration_sec' = d
    /\ interval_sec' = i
    /\ publishers' = pubs
    /\ message_count' = 0
    /\ success_count' = 0
    /\ rpc' = "loop"
    /\ UNCHANGED <<run_error, message, results, published, pos_ticks, res_ticks,
                   interrupted>>
    /\ UNCHANGED <<operation, resVars, posVars, callVars>>
    /\ UNCHANGED <<convVars, misVars>>

\* line 320: time remains (the clock is not modelled: it may or may not) and
\* the body is entered
EnterTick ==
    /\ rpc = "loop"
    /\ duration_sec > 0
    /\ message_count < MaxTicks
    /\ rpc' = "generate"
    /\ UNCHANGED <<run_error, runArgs, message, results, runCounts, interrupted>>
    /\ UNCHANGED <<operation, resVars, posVars, callVars>>
    /\ UNCHANGED <<convVars, misVars>>

\* line 320: the duration has elapsed (at once when duration_sec <= 0)
LeaveLoop ==
    /\ rpc = "loop"
    /\ duration_sec <= 0 \/ message_count > 0
    /\ rpc' = "summary"
    /\ UNCHANGED <<run_error, runArgs, message, results, runCounts, interrupted>>
    /\ UNCHANGED <<operation, resVars, posVars, callVars>>
    /\ UNCHANGED <<convVars, misVars>>

\* line 322: generate_message, lines 239-294.  The pydantic models raise
\* ValidationError on a field outside its domain, and run does not catch it.
Generate ==
    /\ rpc = "generate"
    /\ IF FieldsValid
       THEN /\ message' = ComposedMessage
            /\ results' = << >>
            /\ rpc' = "publish"
            /\ UNCHANGED run_error
       ELSE /\ rpc' = "raised"
            /\ run_error' = "ValidationError"
            /\ UNCHANGED <<message, results>>
    /\ UNCHANGED <<runArgs, runCounts, interrupted>>
    /\ UNCHANGED <<operation, resVars, posVars, callVars>>
    /\ UNCHANGED <<convVars, misVars>>

\* line 398: the list comprehension calls the next publisher and keeps what it
\* returns
PublishOne(ok) ==
    /\ rpc = "publish"
    /\ Len(results) < Len(publishers)
    /\ ok \in Outcomes(publishers[Len(results) + 1])
    /\ results' = Append(results, ok)
    /\ UNCHANGED <<rpc, run_error, runArgs, message, runCounts, interrupted>>
    /\ UNCHANGED <<operation, resVars, posVars, callVars>>
    /\ UNCHANGED <<convVars, misVars>>

\* line 399 and lines 324-325: every publisher has been called; publish
\* returns any(results), its local list is gone, and run counts a success on
\* True
PublishReturns ==
    /\ rpc = "publish"
    /\ Len(results) = Len(publishers)
    /\ success_count' = IF AnyAccepted(results) THEN success_count + 1
                        ELSE success_count
    /\ results' = << >>
    /\ published' = published + 1
    /\ rpc' = "count"
    /\ UNCHANGED <<run_error, runArgs, message, message_count,
                   pos_ticks, res_ticks, interrupted>>
    /\ UNCHANGED <<operation, resVars, posVars, callVars>>
    /\ UNCHANGED <<convVars, misVars>>

\* line 327
Count ==
    /\ rpc = "count"
    /\ message_count' = Counted(message_count)
    /\ rpc' = "position"
    /\ UNCHANGED <<run_error, runArgs, message, results, success_count,
                   published, pos_ticks, res_ticks, interrupted>>
    /\ UNCHANGED <<operation, resVars, posVars, callVars>>
    /\ UNCHANGED <<convVars, misVars>>

\* line 330: self._update_position(interval_sec)
TickPosition ==
    /\ rpc = "position"
    /\ PositionUpdated(interval_sec)
    /\ pos_ticks' = pos_ticks + 1
    /\ rpc' = "resources"
    /\ UNCHANGED <<run_error, runArgs, message, results, message_count,
                   success_count, published, res_ticks, interrupted>>
    /\ UNCHANGED <<operation, resVars, callVars>>
    /\ UNCHANGED <<convVars, misVars>>

\* line 331: self._update_resources(interval_sec / 60)
TickResources ==
    /\ rpc = "resources"
    /\ ResourcesUpdated(interval_sec)
    /\ res_ticks' = res_ticks + 1
    /\ rpc' = "sleep"
    /\ UNCHANGED calls
    /\ UNCHANGED <<run_error, runArgs, message, results, message_count,
                   success_count, published, pos_ticks, interrupted>>
    /\ UNCHANGED <<operation, posVars, callVars>>
    /\ UNCHANGED <<convVars, misVars>>

\* line 334: time.sleep raises ValueError on a negative length
Sleep ==
    /\ rpc = "sleep"
    /\ IF interval_sec < 0
       THEN rpc' = "raised" /\ run_error' = "ValueError"
       ELSE rpc' = "loop" /\ UNCHANGED run_error
    /\ UNCHANGED <<runArgs, message, results, runCounts, interrupted>>
    /\ UNCHANGED <<operation, resVars, posVars, callVars>>
    /\ UNCHANGED <<convVars, misVars>>

\* the positions of run inside the try block of lines 319-334
InTry == {"loop", "generate", "publish", "count", "position", "resources",
          "sleep"}

\* Ctrl-C: Python raises KeyboardInterrupt in the main thread between any two
\* bytecodes and out of any blocking call, so at any position inside the try
\* block; lines 336-337 catch it and run goes on to the summary
Interrupt ==
    /\ rpc \in InTry
    /\ interrupted' = TRUE
    /\ rpc' = "summary"
    /\ UNCHANGED <<run_error, runArgs, message, results, runCounts>>
    /\ UNCHANGED <<operation, resVars, posVars, callVars>>
    /\ UNCHANGED <<convVars, misVars>>

\* lines 339-347: the summary is printed and run returns
Summary ==
    /\ rpc = "summary"
    /\ rpc' = "done"
    /\ UNCHANGED <<run_error, runArgs, message, results, runCounts, interrupted>>
    /\ UNCHANGED <<operation, resVars, posVars, callVars>>
    /\ UNCHANGED <<convVars, misVars>>

RunNext ==
    \/ \E d \in DurationChoices, i \in IntervalChoices, pubs \in PublisherLists :
          StartRun(d, i, pubs)
    \/ EnterTick
    \/ LeaveLoop
    \/ Generate
    \/ \E ok \in BOOLEAN : PublishOne(ok)
    \/ PublishReturns
    \/ Count
    \/ TickPosition
    \/ TickResources
    \/ Sleep
    \/ Interrupt
    \/ Summary

-----------------------------------------------------------------------------
(* The loop of run on the record and the resources alone: lines 322 and 331
   of a run whose duration never elapses, without the publisher, the
   counters and the position *)

\* the intervals (seconds) the endless loop ticks with
TickIntervals == {0, 60 * 100, 60 * 500}

\* line 322: message = self.generate_message()
TickCompose ==
    /\ rpc = "generate"
    /\ FieldsValid
    /\ message' = ComposedMessage
    /\ rpc' = "resources"
    /\ UNCHANGED <<run_error, runArgs, results, runCounts, interrupted>>
    /\ UNCHANGED <<operation, resVars, posVars, callVars>>
    /\ UNCHANGED <<convVars, misVars>>

\* line 331: self._update_resources(interval_sec / 60)
TickDeplete ==
    /\ rpc = "resources"
    /\ ResourcesUpdated(interval_sec)
    /\ rpc' = "generate"
    /\ UNCHANGED calls
    /\ UNCHANGED <<run_error, runArgs, message, results, runCounts, interrupted>>
    /\ UNCHANGED <<operation, posVars, callVars>>
    /\ UNCHANGED <<convVars, misVars>>

TickNext == TickCompose \/ TickDeplete

-----------------------------------------------------------------------------
(* Properties of polygon_to_boustrophedon, checked under ConverterSpec *)

\* A polygon the specification calls valid: at least 3 distinct vertices and a
\* bounding box of non-zero area.
ValidPolygon(p) ==
    /\ Len(p) >= 3
    /\ Cardinality({p[i] : i \in DOMAIN p}) >= 3
    /\ MinOf(LatsOf(p)) < MaxOf(LatsOf(p))
    /\ MinOf(LonsOf(p)) < MaxOf(LonsOf(p))

\* The waypoints come in pairs: the k-th pair (k = 0, 1, ...) is a start_line
\* waypoint followed at once by an end_line waypoint, both numbered k.
PairedLines(w) ==
    /\ Len(w) % 2 = 0
    /\ \A k \in 0..(Len(w) \div 2 - 1) :
          /\ w[2 * k + 1].action = "start_line"
          /\ w[2 * k + 1].line_number = k
          /\ w[2 * k + 2].action = "end_line"
          /\ w[2 * k + 2].line_number = k

\* C1 as stated: for a valid polygon and a swath width > 0 the returned list
\* has even length and its line numbers are exactly 0..L-1 for some L >= 1,
\* each twice, on a start_line waypoint and then at once on an end_line one.
C1_AtLeastOneLine ==
    (cpc = "done" /\ swath_width_m > 0 /\ ValidPolygon(polygon_coords))
        => (PairedLines(waypoints) /\ Len(waypoints) \div 2 >= 1)

\* C1, amended: for a polygon of at least 3 vertices and a swath width > 0 the
\* returned list has even length 2L, L >= 0, its line numbers are exactly
\* 0..L-1, each twice, on a start_line waypoint and then at once on an
\* end_line one; L >= 1 exactly when min_lat + step/2 < max_lat.
C1_PairedLines ==
    (cpc = "done" /\ swath_width_m > 0 /\ Len(polygon_coords) >= 3)
        => /\ PairedLines(waypoints)
           /\ Len(waypoints) = 2 * line_num
           /\ (Len(waypoints) \div 2 >= 1)
                 <=> (min_lat + swath_deg_lat \div 2 < max_lat)

\* a valid polygon has been swept in two lines or more
C1_Witness ==
    /\ cpc = "done" /\ swath_width_m > 0 /\ ValidPolygon(polygon_coords)
    /\ Len(waypoints) >= 4

\* C2: the sweep alternates: a line with an even number runs from min_lon to
\* max_lon, a line with an odd number from max_lon to min_lon, and the end
\* longitude of each line is the start longitude of the next.
C2_Alternates ==
    \A k \in 0..(Len(waypoints) \div 2 - 1) :
        /\ waypoints[2 * k + 1].lon = (IF k % 2 = 0 THEN min_lon ELSE max_lon)
        /\ waypoints[2 * k + 2].lon = (IF k % 2 = 0 THEN max_lon ELSE min_lon)
        /\ 2 * k + 3 <= Len(waypoints)
              => waypoints[2 * k + 2].lon = waypoints[2 * k + 3].lon

\* three or more lines over a box that has a width
C2_Witness ==
    /\ cpc = "done" /\ min_lon < max_lon /\ Len(waypoints) >= 6

\* C3: the sweep terminates because the step is positive: every pass of the
\* loop (here over a valid polygon) is made with a positive step and moves
\* current_lat strictly towards max_lat.
C3_SweepAdvances ==
    [][(cpc = "sweep" /\ cpc' = "sweep" /\ ValidPolygon(polygon_coords))
          => (swath_deg_lat > 0 /\ current_lat' > current_lat)]_vars

\* C4: with a swath width <= 0 the call (here on a valid polygon) fails: it
\* neither sweeps nor returns.
C4_NonPositiveSwathFails ==
    (swath_width_m <= 0 /\ ValidPolygon(polygon_coords) /\ cpc # "call")
        => cpc = "raised"

\* empty, fewer than 3 vertices, or a bounding box of zero area
InvalidGeometry(p) == ~ (p # << >> /\ ValidPolygon(p))

\* C5: with an invalid polygon the call (here with a swath width > 0) fails:
\* it neither sweeps nor returns a list, empty or not.
C5_InvalidGeometryFails ==
    (InvalidGeometry(polygon_coords) /\ swath_width_m > 0 /\ cpc # "call")
        => cpc = "raised"

\* C6: when the first sweep latitude min_lat + step/2 is not below max_lat,
\* no waypoint is produced.
C6_NoLineWhenFirstLatNotBelow ==
    (cpc = "done" /\ min_lat + swath_deg_lat \div 2 >= max_lat)
        => waypoints = << >>

\* the 0.001-degree square with swath width 11100 m has returned
C6_Witness ==
    /\ cpc = "done"
    /\ polygon_coords = SmallSquare /\ swath_width_m = WideSwath
    /\ min_lat + swath_deg_lat \div 2 >= max_lat

\* the swath is 5 m and the polygon spans 0.01 degree (2220 units) of latitude
FiveMetreScenario ==
    /\ cpc = "done" /\ swath_width_m = 5 /\ max_lat - min_lat = 2220

\* a line is generated exactly for each sweep latitude
\* min_lat + step/2 + k*step that is strictly below max_lat
LinePerSweepLatitude ==
    /\ \A k \in 0..(max_lat - min_lat) :
          (min_lat + swath_width_m + k * (2 * swath_width_m) < max_lat)
              <=> (k < line_num)
    /\ Len(waypoints) = 2 * line_num
    /\ \A k \in 0..(line_num - 1) :
          /\ waypoints[2 * k + 1].lat = min_lat + swath_width_m + k * (2 * swath_width_m)
          /\ waypoints[2 * k + 2].lat = waypoints[2 * k + 1].lat

\* C7 as stated: 5 m swath over 0.01 degree of latitude gives 246 lines,
\* give or take one.
C7_About246Lines ==
    FiveMetreScenario => (line_num \in 245..247 /\ LinePerSweepLatitude)

\* C7, amended: 5 m swath over 0.01 degree of latitude gives 222 lines, one
\* for each sweep latitude min_lat + step/2 + k*step strictly below max_lat.
C7_LineCount ==
    /\ FiveMetreScenario => line_num = 222
    /\ (cpc = "done" /\ swath_width_m > 0) => LinePerSweepLatitude

C7_Witness == FiveMetreScenario /\ polygon_coords = LongField

-----------------------------------------------------------------------------
(* Properties of the resource levels *)

\* C8: after any number of _update_resources calls, with any dt and any
\* operation, tank_level, battery and fuel are each >= 0.
C8_NeverNegative == tank_level >= 0 /\ battery >= 0 /\ fuel >= 0

\* a call that would have taken every level below 0
C8_Witness ==
    /\ calls >= 2 /\ last_dt > 0
    /\ tank_level = 0 /\ battery = 0 /\ fuel = 0

\* C9: in every reachable state of the simulator the three percentages lie in
\* [0, 100].
C9_PercentRange ==
    /\ tank_level >= 0 /\ tank_level <= 100 * 6000
    /\ battery >= 0 /\ battery <= 100 * 6000
    /\ fuel >= 0 /\ fuel <= 100 * 6000

-----------------------------------------------------------------------------
(* Properties of generate_message, checked under TickSpec *)

\* C11: every record generate_message builds has status warning exactly when
\* the tank level is below 10, the battery below 15 or the fuel below 10
\* (percent) at the time it is built, and operational otherwise; error,
\* maintenance and offline are never produced.
C11_StatusByThresholds ==
    /\ message.status \in {"none", "operational", "warning"}
    /\ rpc = "resources" =>
          /\ message.status = "warning" <=>
                (tank_level < 10 * 6000 \/ battery < 15 * 6000
                    \/ fuel < 10 * 6000)
          /\ message.status = "operational" <=>
                (tank_level >= 10 * 6000 /\ battery >= 15 * 6000
                    /\ fuel >= 10 * 6000)

\* the record built one tick after the tank stood exactly at 10 percent: the
\* tank alone is below its threshold and the record is a warning
C11_Witness ==
    /\ rpc = "resources"
    /\ message.status = "warning"
    /\ tank_level < 10 * 6000
    /\ tank_level + TankRate * interval_sec = 10 * 6000
    /\ battery >= 15 * 6000
    /\ fuel >= 10 * 6000

\* C20: for ticks with dt >= 0 the three resource levels never increase, so
\* the status is absorbing: once a composed record has status warning, every
\* later record of the same simulator has status warning; and for an
\* application operation ticked forever with dt > 0 the status eventually
\* becomes warning.
C20_WarningAbsorbs ==
    /\ [][interval_sec >= 0 =>
             /\ tank_level' <= tank_level
             /\ battery' <= battery
             /\ fuel' <= fuel]_vars
    /\ [][(interval_sec >= 0 /\ message.status = "warning") =>
             message'.status = "warning"]_vars
    /\ (/\ operation \in {"fertilizer_application", "pesticide_application"}
        /\ interval_sec > 0) => <>(message.status = "warning")

\* an application operation, ticked every 100 minutes, has emptied its tank;
\* the record in hand is a warning on the tank alone, and it is not the first
\* warning
C20_Witness ==
    /\ operation = "pesticide_application"
    /\ interval_sec = 60 * 100
    /\ message.status = "warning"
    /\ message.tank_level_pct = 0
    /\ message.battery_pct >= 15 * 6000
    /\ message.fuel_level_pct >= 10 * 6000

-----------------------------------------------------------------------------
(* Properties of _update_position, checked under PositionSpec *)

\* C12: a position update turns the vehicle around exactly when, after the
\* longitude has advanced, its absolute displacement from the start_lon the
\* simulator was constructed with exceeds row_length; a turn flips the sweep
\* direction, adds row_width to the latitude, adds one to rows_completed and
\* sets the heading to 90 when the direction is forward and 270 when it is
\* reverse; an update that does not turn changes only the longitude.
C12_TurnsAtRowLengthFromStart ==
    [][moves' = moves + 1 =>
         /\ lon' = LonAfter(lon, direction, tick_dt)
         /\ IF Abs(lon' - start_lon) > RowLength
            THEN /\ direction' = 0 - direction
                 /\ lat' = lat + RowWidth
                 /\ rows_completed' = rows_completed + 1
                 /\ heading' = (IF direction' = 1 THEN 90 ELSE 270)
            ELSE UNCHANGED <<direction, lat, rows_completed, heading>>]_vars

\* C19: for a simulator constructed with the default start longitude and
\* ticked with one dt > 0 whose displacement per tick is less than row_length,
\* in every reachable state the longitude is within row_length plus one
\* displacement per tick of the start longitude, the direction points back
\* toward the start whenever the vehicle is beyond row_length, and no two
\* consecutive ticks both turn the vehicle around.
C19_StaysWithinRow ==
    (/\ start_lon = DefaultStartLon
     /\ tick_dt > 0
     /\ SpeedDegPerSec * tick_dt < RowLength) =>
        /\ Abs(lon - start_lon) <= RowLength + SpeedDegPerSec * tick_dt
        /\ lon - start_lon > RowLength => direction = -1
        /\ start_lon - lon > RowLength => direction = 1
        /\ turns_in_row <= 1

\* with steps just short of a row the vehicle has overshot the east end,
\* turned, come back through the start, overshot the west end and turned again
C19_Witness ==
    /\ start_lon = DefaultStartLon
    /\ tick_dt = 249
    /\ start_lon - lon > RowLength
    /\ direction = 1
    /\ rows_completed = 2
    /\ turns_in_row = 1

\* C21: in every reachable state of the simulator rows_completed never
\* decreases, the latitude is start_lat plus rows_completed times row_width,
\* direction is +1 when rows_completed is even and -1 when it is odd, and
\* heading is 90 exactly when direction is +1 and 270 exactly when it is -1.
C21_RowsLatDirectionHeading ==
    /\ [](/\ lat = start_lat + rows_completed * RowWidth
          /\ rows_completed % 2 = 0 => direction = 1
          /\ rows_completed % 2 = 1 => direction = -1
          /\ heading = 90 <=> direction = 1
          /\ heading = 270 <=> direction = -1)
    /\ [][rows_completed' >= rows_completed]_vars

\* with steps longer than a row the vehicle has turned at the east end, at
\* the west end and at the east end again, and heads west three rows up
C21_Witness ==
    /\ start_lon = DefaultStartLon
    /\ rows_completed = 3
    /\ direction = -1
    /\ heading = 270
    /\ lat = start_lat + 3 * RowWidth
    /\ moves = 5

-----------------------------------------------------------------------------
(* Properties of run, checked under RunSpec *)

\* the record in hand is the current state of the simulator
RecordOfState ==
    /\ message.tank_level_pct = tank_level
    /\ message.battery_pct = battery
    /\ message.fuel_level_pct = fuel
    /\ message.lat = lat
    /\ message.lon = lon
    /\ message.heading_deg = heading

\* the levels of the record in hand are those of a new simulator lowered k
\* times by one interval
RecordAfterAdvances(k) ==
    /\ message.battery_pct = Max(0, 100 * 6000 - k * interval_sec)
    /\ message.fuel_level_pct = Max(0, 100 * 6000 - k * 2 * interval_sec)
    /\ message.tank_level_pct =
          IF operation \in {"fertilizer_application", "pesticide_application"}
          THEN Max(0, 100 * 6000 - k * 5 * interval_sec)
          ELSE 100 * 6000

\* C13: a tick is strictly sequential.  The record is composed from the
\* current state, then handed to every publisher, and only after all of them
\* have been attempted is the state advanced, position and resources once
\* each; a tick completes before the next begins, so the k-th record of a run
\* (from 0) reflects the state after exactly k advances.
C13_TickIsSequential ==
    /\ [](/\ rpc \in {"publish", "count"} =>
               /\ RecordOfState
               /\ RecordAfterAdvances(message_count)
               /\ pos_ticks = message_count /\ res_ticks = message_count
          /\ rpc = "position" =>
               /\ published = message_count
               /\ pos_ticks = message_count - 1 /\ res_ticks = message_count - 1
          /\ rpc = "resources" =>
               /\ published = message_count
               /\ pos_ticks = message_count /\ res_ticks = message_count - 1
          /\ rpc \in {"sleep", "loop", "generate"} =>
               /\ published = message_count
               /\ pos_ticks = message_count /\ res_ticks = message_count)
    /\ [][/\ published' # published => Len(results) = Len(publishers)
          /\ (pos_ticks' # pos_ticks \/ res_ticks' # res_ticks) =>
                results = << >>]_vars

\* the record numbered 2 is in the hands of the second of two publishers after
\* two advances of one minute
C13_Witness ==
    /\ rpc = "publish"
    /\ message_count = 2
    /\ Len(publishers) = 2 /\ Len(results) = 1
    /\ interval_sec = 60
    /\ pos_ticks = 2 /\ res_ticks = 2
    /\ message.battery_pct = 100 * 6000 - 120
    /\ message.lon = start_lon + 2 * 60 * SpeedDegPerSec

\* C14: the publish step of a tick is successful exactly when at least one
\* publisher accepts the record: success_count goes up (by one) in a tick if
\* and only if some publisher returned true, and every publisher is attempted
\* whether an earlier one succeeded or failed.
C14_SuccessIffAnyAccepts ==
    [][/\ (rpc = "publish" /\ rpc' = "count") =>
             /\ Len(results) = Len(publishers)
             /\ (\E k \in 1..Len(results) : results[k] = TRUE) =>
                   success_count' = success_count + 1
             /\ (\A k \in 1..Len(results) : results[k] = FALSE) =>
                   success_count' = success_count
       /\ success_count' # success_count => (rpc = "publish" /\ rpc' = "count")
       /\ (rpc = "publish" /\ rpc' = "publish") =>
             /\ Len(results) < Len(publishers)
             /\ Len(results') = Len(results) + 1
             /\ \A k \in 1..Len(results) : results'[k] = results[k]]_vars

\* the first tick went by with no publisher accepting and was not counted a
\* success; in the second the first publisher has refused, the second was
\* attempted all the same and has accepted
C14_Witness ==
    /\ rpc = "publish"
    /\ message_count = 1 /\ success_count = 0
    /\ Len(publishers) = 2
    /\ results = <<FALSE, TRUE>>

\* C15 as stated: no sink failure ends the run, and success_count <=
\* message_count in every reachable state.
C15_SuccessWithinMessages ==
    /\ rpc = "raised" => run_error \in {"ValidationError", "ValueError"}
    /\ success_count <= message_count

\* C15, amended: a sink failure never ends the run: the failing publisher
\* returns false, the loop goes on to the next tick, message_count goes up by
\* exactly one in every completed tick and success_count by one only in a
\* successful tick; success_count is incremented before message_count, so
\* success_count <= message_count at every tick boundary and success_count <=
\* message_count + 1 in every reachable state.
C15_SuccessWithinMessagesAtBoundaries ==
    /\ [](/\ rpc = "raised" => run_error \in {"ValidationError", "ValueError"}
          /\ success_count <= message_count + 1
          /\ rpc \in {"idle", "loop", "generate", "publish", "position",
                      "resources", "sleep"} => success_count <= message_count
          /\ rpc \in {"loop", "generate", "publish"} =>
                message_count = published)
    /\ [][/\ (rpc = "publish" /\ rpc' = "count"
                /\ \A k \in 1..Len(results) : results[k] = FALSE) =>
                (success_count' = success_count /\ run_error' = run_error)
          /\ success_count' # success_count =>
                success_count' = success_count + 1
          /\ message_count' # message_count =>
                (message_count' = message_count + 1 /\ rpc = "count")
          /\ (rpc = "count" /\ rpc' = "position") =>
                message_count' = message_count + 1
          /\ (rpc = "sleep" /\ interval_sec >= 0 /\ ~interrupted') =>
                rpc' = "loop"]_vars

\* both sinks failed in the first tick, which was counted as a message and
\* not as a success; the loop went on, and the second tick has just been
\* counted a success
C15_Witness ==
    /\ rpc = "count"
    /\ publishers = <<"mqtt", "http">>
    /\ message_count = 1
    /\ success_count = 1
    /\ published = 2
    /\ ~interrupted

\* C16: a cancellation of run by the user is observed only at a tick
\* boundary, never in the middle of publish or between a tick's publish and
\* its counter and state updates: when the loop stops, every published record
\* has been counted in message_count and followed by exactly one state
\* advance; and the run still emits its final summary.
C16_CancelledAtTickBoundary ==
    (interrupted /\ Len(publishers) > 0) =>
        /\ results = << >>
        /\ published = message_count
        /\ pos_ticks = message_count
        /\ res_ticks = message_count
        /\ rpc \in {"summary", "done"}

\* C17: when the record composed in a tick violates a field domain (a
\* latitude outside [-90, 90], a percentage outside [0, 100]) that record is
\* not published and the loop goes on with the following ticks: a validation
\* failure on one record never ends run.
C17_InvalidRecordSkipped ==
    /\ run_error # "ValidationError"
    /\ rpc = "publish" =>
          /\ message.lat >= 0 - LatLimit /\ message.lat <= LatLimit
          /\ message.tank_level_pct >= 0 /\ message.tank_level_pct <= FullLevel
          /\ message.battery_pct >= 0 /\ message.battery_pct <= FullLevel
          /\ message.fuel_level_pct >= 0 /\ message.fuel_level_pct <= FullLevel

-----------------------------------------------------------------------------
(* Properties of generate_mission, checked under MissionSpec *)

\* A zone that converts cleanly: a valid polygon in which at least one line
\* of the generator's swath fits.
CleanZone(p) ==
    /\ ValidPolygon(p)
    /\ FirstLat(MinOf(LatsOf(p)), SwathDegLat(NarrowSwath)) < MaxOf(LatsOf(p))

\* C18: in batch mission generation an error in one zone stops that zone
\* only: generate_mission goes on to process every remaining zone of the
\* prescription, and the zones that convert cleanly still appear in the
\* mission document.
C18_OtherZonesContinue ==
    mpc \in {"returned", "raised"} =>
        \A i \in 1..Len(zones) :
            CleanZone(zones[i]) =>
                /\ mpc = "returned"
                /\ \E j \in 1..Len(zone_missions) : zone_missions[j].zone = i

-----
(* Specifications *)

\* polygon_to_boustrophedon, beside a simulator that is left alone
ConverterInit ==
    /\ ConvInit /\ SimInit /\ NoCaller /\ RunIdle /\ MissionIdle
    /\ operation = "idle" /\ lat = DefaultStartLat /\ start_lon = DefaultStartLon

ConverterSpec == ConverterInit /\ [][ConvNext]_vars

\* _update_resources called repeatedly; the converter is not called
ResourceInit ==
    /\ ConvIdle /\ SimInit /\ NoCaller /\ RunIdle /\ MissionIdle
    /\ lat = DefaultStartLat /\ start_lon = DefaultStartLon

ResourceSpec == ResourceInit /\ [][ResNext]_vars

\* run on a freshly constructed simulator
RunInit ==
    /\ ConvIdle /\ SimInit /\ NoCaller /\ RunIdle /\ MissionIdle
    /\ operation \in RunOperations

RunSpec == RunInit /\ [][RunNext]_vars

\* generate_mission called on a generator built by MissionGenerator(), whose
\* converter has a swath width of 5 m (mission_generator_mock.py, line 22)
MissionInit ==
    /\ ConvBuilt /\ SimInit /\ NoCaller /\ RunIdle
    /\ operation = "idle" /\ lat = DefaultStartLat /\ start_lon = DefaultStartLon
    /\ zones \in ZoneLists
    /\ mpc = "start"
    /\ zone_index = 0
    /\ zone_missions = << >>
    /\ mission_error = "none"

MissionSpec == MissionInit /\ [][MissionNext]_vars

\* the values of dt (seconds) a caller ticks _update_position with: steps far
\* shorter than a row, steps just short of one (249 s is 49800 units), steps
\* longer than one, and a negative step
PosDts == {-60, 1, 60, 120, 240, 249, 250}

\* _update_position called repeatedly with one dt on a freshly constructed
\* simulator
PositionInit ==
    /\ ConvIdle /\ SimInit /\ RunIdle /\ MissionIdle
    /\ operation \in RunOperations
    /\ tick_dt \in PosDts
    /\ moves = 0

PositionSpec == PositionInit /\ [][PosNext]_vars

\* the endless loop of run on a freshly constructed simulator, at line 322
TickInit ==
    /\ ConvIdle /\ SimInit /\ NoCaller /\ MissionIdle
    /\ lat = DefaultStartLat /\ start_lon = DefaultStartLon
    /\ rpc = "generate"
    /\ run_error = "none"
    /\ duration_sec = 60
    /\ interval_sec \in TickIntervals
    /\ publishers = << >>
    /\ message = NoMessage
    /\ results = << >>
    /\ message_count = 0 /\ success_count = 0 /\ published = 0
    /\ pos_ticks = 0 /\ res_ticks = 0
    /\ interrupted = FALSE

\* the loop goes round for as long as it can: its body has no blocking call
\* but sleep, which returns
TickSpec == TickInit /\ [][TickNext]_vars /\ WF_vars(TickNext)

====
